---- MODULE Spec2Model ----
(***************************************************************************)
(* sonar-pr-scan: one run of main() (src/main.py) and the finding filter   *)
(* of format_comment, with the diff change set of src/diff_parser.py.      *)
(*                                                                         *)
(* Encoding of Python values:                                              *)
(*   - an optional value is a set: {} is None, {x} is the value x;         *)
(*   - a string that the code splits or searches (component, path,         *)
(*     GITHUB_REF) is a sequence of its pieces; other strings are atoms;   *)
(*   - a dict is a function from its set of keys;                          *)
(*   - a list is a sequence.                                               *)
(* message / severity / status of a finding are copied verbatim by the     *)
(* code and take no part in any decision; they are left out of a finding.  *)
(***************************************************************************)
EXTENDS Integers, Sequences, FiniteSets, TLC

VARIABLES
    pc,             \* position of main(): the step that runs next
    exit_code,      \* {} while running, {n} once the process has exited
    missing,        \* the required option that is unset in the environment
    ref,            \* GITHUB_REF, split on "/"
    edition,        \* INPUT_SONAR-EDITION
    pr_number,      \* main.pr_number: {} until parsed
    changed_lines,  \* main.changed_lines: path -> set of added lines
    issues,         \* issues as fetched
    hotspots,       \* hotspots as fetched
    metrics,        \* coverage metrics as fetched
    qg_status,      \* quality gate status string
    is_pr_mode,     \* get_sonar_data.used_pr_mode / main.is_pr_mode
    file_coverage,  \* per-file coverage as fetched
    comment,        \* {} until format_comment returned, then {its result}
    calls,          \* history: the requests and child processes, in order
    failed          \* history: the steps whose request or process failed

vars == <<pc, exit_code, missing, ref, edition, pr_number, changed_lines,
          issues, hotspots, metrics, qg_status, is_pr_mode, file_coverage,
          comment, calls, failed>>

(***************************************************************************)
(* Bounds and input universes                                              *)
(***************************************************************************)
\* total number of findings (issues plus hotspots) given to format_comment
MaxFindings == 2
\* number of findings of one kind the analysis server returns in a run
MaxFetched == 1

None == {}
Some(x) == {x}
IsNone(v) == v = {}
Val(v) == CHOOSE x \in v : TRUE

SeqsUpTo(S, n) == UNION {[1..k -> S] : k \in 0..n}

\* repo-relative paths and line numbers of the post-change file
PathA == <<"a">>
PathB == <<"b">>
Paths == {PathA, PathB}
Lines == {1, 2}

\* component identifiers: "<project-key>:<path>" or a bare path
Components == {<<"p", ":", "a">>, <<"a">>, <<"b">>}
Keys == {"k1"}
Findings == [component : Components, line : {None} \cup {Some(l) : l \in Lines},
             key : Keys]

\* every dict parse_changed_lines can return over Paths and Lines
ChangeSets ==
    UNION {[D -> (SUBSET Lines) \ {{}}] : D \in SUBSET Paths}

(***************************************************************************)
(* format_comment (src/main.py 187-314)                                    *)
(***************************************************************************)
HasColon(component) == \E i \in 1..Len(component) : component[i] = ":"

\* component.split(":", 1)[-1] if ":" in component else component
FilePath(component) ==
    IF HasColon(component)
    THEN LET i == CHOOSE k \in 1..Len(component) :
                     /\ component[k] = ":"
                     /\ \A j \in 1..(k - 1) : component[j] # ":"
         IN SubSeq(component, i + 1, Len(component))
    ELSE component

\* Python truthiness of an optional integer
Truthy(v) == ~IsNone(v) /\ Val(v) # 0

\* line or "N/A"
LineOrNA(line) ==
    IF Truthy(line) THEN [na |-> FALSE, n |-> Val(line)]
    ELSE [na |-> TRUE, n |-> 0]

\* variant of the issue test: the line test dropped
IssueIncludeFileOnly(issue, cl, prmode) ==
    prmode \/ FilePath(issue.component) \in DOMAIN cl

\* include, for an issue (main.py 201-207)
IssueInclude(issue, cl, prmode) ==
    LET file_path == FilePath(issue.component)
    IN IF prmode THEN TRUE
       ELSE /\ file_path \in DOMAIN cl
            /\ (IsNone(issue.line) \/ Val(issue.line) \in cl[file_path])

\* variants of the hotspot test: the line tested as for an issue; the mode
\* ignored; every hotspot kept
HotspotIncludeByLine(hs, cl, prmode) ==
    LET file_path == FilePath(hs.component)
    IN IF prmode THEN TRUE
       ELSE /\ file_path \in DOMAIN cl
            /\ (IsNone(hs.line) \/ Val(hs.line) \in cl[file_path])

HotspotIncludeManualOnly(hs, cl, prmode) ==
    FilePath(hs.component) \in DOMAIN cl

HotspotIncludeAll(hs, cl, prmode) == TRUE

\* include, for a hotspot (main.py 231-237)
HotspotInclude(hs, cl, prmode) ==
    IF prmode THEN TRUE
    ELSE FilePath(hs.component) \in DOMAIN cl

\* the link of a reported finding (main.py 210-212, 240-242)
Link(kind, key, prn, prmode) ==
    [page |-> kind, key |-> key,
     pullRequest |-> IF Truthy(prn) /\ prmode THEN prn ELSE None]

\* the entry appended for an included finding (main.py 214-220, 244-250)
Entry(kind, f, prn, prmode) ==
    [file |-> FilePath(f.component), line |-> LineOrNA(f.line),
     link |-> Link(kind, f.key, prn, prmode)]

\* the loop over issues (main.py 192-223)
RECURSIVE RelevantIssues(_, _, _, _)
RelevantIssues(is, cl, prn, prmode) ==
    IF is = <<>> THEN <<>>
    ELSE (IF IssueInclude(Head(is), cl, prmode)
          THEN <<Entry("issues", Head(is), prn, prmode)>> ELSE <<>>)
         \o RelevantIssues(Tail(is), cl, prn, prmode)

\* the loop over hotspots (main.py 225-252)
RECURSIVE RelevantHotspots(_, _, _, _)
RelevantHotspots(hss, cl, prn, prmode) ==
    IF hss = <<>> THEN <<>>
    ELSE (IF HotspotInclude(Head(hss), cl, prmode)
          THEN <<Entry("security_hotspots", Head(hss), prn, prmode)>> ELSE <<>>)
         \o RelevantHotspots(Tail(hss), cl, prn, prmode)

\* status_icons and status_icons.get(qg_status, qg_status) (main.py 264-270)
StatusIcons ==
    [s \in {"OK", "ERROR", "WARN", "UNKNOWN"} |->
        CASE s = "OK" -> [icon |-> "check", text |-> "Passed"]
          [] s = "ERROR" -> [icon |-> "cross", text |-> "Failed"]
          [] s = "WARN" -> [icon |-> "warning", text |-> "Warning"]
          [] s = "UNKNOWN" -> [icon |-> "question", text |-> "Unknown"]]

HealthIcon(status) ==
    IF status \in DOMAIN StatusIcons THEN StatusIcons[status]
    ELSE [icon |-> "", text |-> status]

\* the comment format_comment returns, as its sections
FormatComment(is, hss, cl, m, fc, status, prn, prmode) ==
    LET ri == RelevantIssues(is, cl, prn, prmode)
        rh == RelevantHotspots(hss, cl, prn, prmode)
    IN [relevant_issues |-> ri,
        relevant_hotspots |-> rh,
        analysis_link |-> IF Truthy(prn) /\ prmode THEN prn ELSE None,
        health_icon |-> HealthIcon(status),
        coverage |-> m,
        file_coverage |-> fc,
        no_issues |-> (ri = <<>> /\ rh = <<>>)]

(***************************************************************************)
(* parse_changed_lines (src/diff_parser.py 19-43)                          *)
(* A patch is the sequence of its patched files; a patched file carries    *)
(* the lines of the target side of its hunks, each added or context.       *)
(***************************************************************************)
TargetLine(no, added) == [target_line_no |-> no, is_added |-> added]
PatchedFile(path, binary, removed, target) ==
    [path |-> path, is_binary_file |-> binary, is_removed_file |-> removed,
     target_lines |-> target]

\* lines.add(line.target_line_no) for the added lines of the hunks (34-38)
AddedLines(patched_file) ==
    {l.target_line_no : l \in {t \in patched_file.target_lines : t.is_added}}

\* changed_lines[file_path] = lines
Put(d, k, v) == [x \in DOMAIN d \cup {k} |-> IF x = k THEN v ELSE d[x]]

EmptyDict == [x \in {} |-> {}]

RECURSIVE ParseInto(_, _)
ParseInto(patch, changed) ==
    IF patch = <<>> THEN changed
    ELSE LET f == Head(patch)
         IN IF f.is_binary_file \/ f.is_removed_file
            THEN ParseInto(Tail(patch), changed)
            ELSE IF AddedLines(f) # {}
                 THEN ParseInto(Tail(patch), Put(changed, f.path, AddedLines(f)))
                 ELSE ParseInto(Tail(patch), changed)

ParseChangedLines(patch) == ParseInto(patch, EmptyDict)

\* the diffs the hosting API answers with in a run
Patches ==
    { <<>>,
      <<PatchedFile(PathA, FALSE, FALSE,
                    {TargetLine(1, TRUE), TargetLine(2, FALSE)})>>,
      <<PatchedFile(PathA, FALSE, FALSE,
                    {TargetLine(1, TRUE), TargetLine(2, TRUE)}),
        PatchedFile(PathB, FALSE, TRUE, {})>> }

(***************************************************************************)
(* The environment of a run                                                *)
(***************************************************************************)
\* the options spec section 6 calls required, GITHUB_REF apart
RequiredOptions ==
    {"sonar_host", "sonar_token", "project_key", "repo", "github_token"}

\* GITHUB_REF.split("/"); <<"">> is the unset variable (default "")
PullRef == <<"refs", "pull", "7", "merge">>
Refs == {<<"">>, <<"refs", "heads", "main">>, PullRef}

\* int(s): the decimal strings of the model; any other string is a ValueError
IsDecimal(s) == s \in {"7"}
IntOf(s) == CASE s = "7" -> 7

Editions == {"community", "Developer"}

\* edition.lower()
Lower(e) == CASE e = "Developer" -> "developer" [] OTHER -> e

\* what the analysis server returns for one kind of finding in a run: a
\* finding on line 2 of a.py (added in one diff of Patches, context in
\* another) and a file-level finding of b.py (in no change set of Patches)
FetchedFindings ==
    { [component |-> <<"p", ":", "a">>, line |-> Some(2), key |-> "k1"],
      [component |-> <<"b">>, line |-> None, key |-> "k1"] }
FetchedLists == SeqsUpTo(FetchedFindings, MaxFetched)

\* measures of /api/measures/component: value is {} when the key is absent
Measure(metric, value) == [metric |-> metric, value |-> value]
MeasureLists ==
    { <<Measure("coverage", Some(80))>>,
      <<Measure("coverage", Some(80)), Measure("new_coverage", None)>> }

\* components of /api/measures/component_tree, one coverage measure each
Component(path, value) == [path |-> path, value |-> value]
ComponentLists ==
    { <<Component(PathA, Some(50)), Component(PathB, Some(60))>>,
      <<Component(PathA, Some(50)), Component(PathA, None)>> }

GateStatuses == {"OK", "ERROR", "WARN", "UNKNOWN", "NONE"}

\* exit codes of the scanner child process (negative: killed by a signal)
ReturnCodes == {0, 1, 0 - 9}

\* one request or child process, with the pullRequest parameter it carried
Call(ep, prn) == [ep |-> ep, pullRequest |-> IF Truthy(prn) THEN prn ELSE None]

IssuesEp == "api/issues/search"
HotspotsEp == "api/hotspots/search"
MeasuresEp == "api/measures/component"
TreeEp == "api/measures/component_tree"
GateEp == "api/qualitygates/project_status"
SonarEps == {IssuesEp, HotspotsEp, MeasuresEp, TreeEp, GateEp}
DiffEp == "github/pulls"
PostEp == "github/create_issue_comment"
ScannerEp == "sonar-scanner"

\* a request to f"{host}/api/..." can only be answered when host is a URL
SonarCanAnswer == missing # "sonar_host"

\* sys.exit(n): the status the parent sees
ExitStatus(n) == n % 256

Exit(n) ==
    /\ pc' = "exit"
    /\ exit_code' = Some(ExitStatus(n))

(***************************************************************************)
(* main (src/main.py 316-366), one action per step                         *)
(***************************************************************************)
\* main 318-334: read the environment, parse the PR number
ReadConfig ==
    /\ pc = "start"
    /\ IF Len(ref) >= 3 /\ IsDecimal(ref[3])
       THEN /\ pr_number' = Some(IntOf(ref[3]))
            /\ pc' = "diff"
            /\ UNCHANGED exit_code
       ELSE /\ Exit(1)
            /\ UNCHANGED pr_number
    /\ UNCHANGED <<missing, ref, edition, changed_lines, issues, hotspots,
                   metrics, qg_status, is_pr_mode, file_coverage, comment,
                   calls, failed>>

\* main 337-343: get_pr_diff and parse_changed_lines
GetPrDiff ==
    /\ pc = "diff"
    /\ calls' = Append(calls, Call(DiffEp, pr_number))
    /\ \/ \E patch \in Patches :
            /\ changed_lines' = ParseChangedLines(patch)
            /\ pc' = "scan"
            /\ UNCHANGED <<exit_code, failed>>
       \/ /\ failed' = failed \cup {"diff"}
          /\ Exit(1)
          /\ UNCHANGED changed_lines
    /\ UNCHANGED <<missing, ref, edition, pr_number, issues, hotspots,
                   metrics, qg_status, is_pr_mode, file_coverage, comment>>

\* variant: the scanner's exit code is logged and the run goes on
RunSonarScannerIgnoringCode ==
    /\ pc = "scan"
    /\ calls' = Append(calls, Call(ScannerEp, None))
    /\ \E returncode \in ReturnCodes :
          /\ failed' = IF returncode # 0 THEN failed \cup {"scanner"} ELSE failed
          /\ pc' = "issues"
          /\ UNCHANGED exit_code
    /\ UNCHANGED <<missing, ref, edition, pr_number, changed_lines, issues,
                   hotspots, metrics, qg_status, is_pr_mode, file_coverage,
                   comment>>

\* main 346, run_sonar_scanner 8-36
RunSonarScanner ==
    /\ pc = "scan"
    /\ calls' = Append(calls, Call(ScannerEp, None))
    /\ \E returncode \in ReturnCodes :
          IF returncode # 0
          THEN /\ failed' = failed \cup {"scanner"}
               /\ Exit(returncode)
          ELSE /\ pc' = "issues"
               /\ UNCHANGED <<exit_code, failed>>
    /\ UNCHANGED <<missing, ref, edition, pr_number, changed_lines, issues,
                   hotspots, metrics, qg_status, is_pr_mode, file_coverage,
                   comment>>

\* get_sonar_data 48
AttemptPrMode ==
    /\ Lower(edition) \in {"cloud", "developer", "enterprise"}
    /\ Truthy(pr_number)

\* get_sonar_data 51-55 and 56-57: the PR mode fetch and its except clause
FetchIssuesPrMode ==
    /\ pc = "issues"
    /\ AttemptPrMode
    /\ calls' = Append(calls, Call(IssuesEp, pr_number))
    /\ \/ /\ SonarCanAnswer
          /\ \E got \in FetchedLists : issues' = got
          /\ is_pr_mode' = TRUE
          /\ pc' = "hotspots"
          /\ UNCHANGED failed
       \/ /\ failed' = failed \cup {"issues_pr"}
          /\ pc' = "issues_fallback"
          /\ UNCHANGED <<issues, is_pr_mode>>
    /\ UNCHANGED <<exit_code, missing, ref, edition, pr_number, changed_lines,
                   hotspots, metrics, qg_status, file_coverage, comment>>

\* variant: the second fetch passes the change reference again
FetchGlobalIssuesWithPr(tag) ==
    /\ calls' = Append(calls, Call(IssuesEp, pr_number))
    /\ \/ /\ SonarCanAnswer
          /\ \E got \in FetchedLists : issues' = got
          /\ is_pr_mode' = FALSE
          /\ pc' = "hotspots"
          /\ UNCHANGED <<exit_code, failed>>
       \/ /\ failed' = failed \cup {tag}
          /\ Exit(1)
          /\ UNCHANGED <<issues, is_pr_mode>>
    /\ UNCHANGED <<missing, ref, edition, pr_number, changed_lines,
                   hotspots, metrics, qg_status, file_coverage, comment>>

\* get_sonar_issues(..., None, ...) of get_sonar_data 58-59 and 62-63; an
\* exception leaves get_sonar_data and is caught by main 364-366
FetchGlobalIssues(tag) ==
    /\ calls' = Append(calls, Call(IssuesEp, None))
    /\ \/ /\ SonarCanAnswer
          /\ \E got \in FetchedLists : issues' = got
          /\ is_pr_mode' = FALSE
          /\ pc' = "hotspots"
          /\ UNCHANGED <<exit_code, failed>>
       \/ /\ failed' = failed \cup {tag}
          /\ Exit(1)
          /\ UNCHANGED <<issues, is_pr_mode>>
    /\ UNCHANGED <<missing, ref, edition, pr_number, changed_lines,
                   hotspots, metrics, qg_status, file_coverage, comment>>

\* get_sonar_data 58-59
FetchIssuesFallback ==
    /\ pc = "issues_fallback"
    /\ FetchGlobalIssues("issues_fallback")

\* get_sonar_data 60-63
FetchIssuesGlobal ==
    /\ pc = "issues"
    /\ ~AttemptPrMode
    /\ FetchGlobalIssues("issues_global")

\* variant: the change reference is passed whatever the mode
FetchPrAlways == pr_number

\* get_sonar_data 68 and main 353
FetchPr == IF is_pr_mode THEN pr_number ELSE None

\* variant: a failed hotspot request is not caught
GetSonarHotspotsFatal ==
    /\ pc = "hotspots"
    /\ calls' = Append(calls, Call(HotspotsEp, FetchPr))
    /\ \/ /\ \E got \in FetchedLists : hotspots' = got
          /\ pc' = "metrics"
          /\ UNCHANGED <<exit_code, failed>>
       \/ /\ failed' = failed \cup {"hotspots"}
          /\ Exit(1)
          /\ UNCHANGED hotspots
    /\ UNCHANGED <<missing, ref, edition, pr_number, changed_lines,
                   issues, metrics, qg_status, is_pr_mode, file_coverage,
                   comment>>

\* get_sonar_data 70, get_sonar_hotspots 93-114
GetSonarHotspots ==
    /\ pc = "hotspots"
    /\ calls' = Append(calls, Call(HotspotsEp, FetchPr))
    /\ \/ /\ \E got \in FetchedLists : hotspots' = got
          /\ UNCHANGED failed
       \/ /\ hotspots' = <<>>
          /\ failed' = failed \cup {"hotspots"}
    /\ pc' = "metrics"
    /\ UNCHANGED <<exit_code, missing, ref, edition, pr_number, changed_lines,
                   issues, metrics, qg_status, is_pr_mode, file_coverage,
                   comment>>

\* get_coverage_metrics 133-134: metrics[m["metric"]] = m["value"], until a
\* measure without "value" raises KeyError
RECURSIVE MeasuresInto(_, _)
MeasuresInto(measures, m) ==
    IF measures = <<>> THEN [dict |-> m, raised |-> FALSE]
    ELSE IF IsNone(Head(measures).value) THEN [dict |-> m, raised |-> TRUE]
    ELSE MeasuresInto(Tail(measures),
                      Put(m, Head(measures).metric, Val(Head(measures).value)))

\* get_sonar_data 71, get_coverage_metrics 116-138
GetCoverageMetrics ==
    /\ pc = "metrics"
    /\ calls' = Append(calls, Call(MeasuresEp, FetchPr))
    /\ \/ \E measures \in MeasureLists :
            LET r == MeasuresInto(measures, EmptyDict)
            IN /\ metrics' = r.dict
               /\ failed' = IF r.raised THEN failed \cup {"metrics_read"}
                            ELSE failed
       \/ /\ metrics' = EmptyDict
          /\ failed' = failed \cup {"metrics"}
    /\ pc' = "gate"
    /\ UNCHANGED <<exit_code, missing, ref, edition, pr_number, changed_lines,
                   issues, hotspots, qg_status, is_pr_mode, file_coverage,
                   comment>>

\* get_sonar_data 72, get_quality_gate_status 170-185; the answer may carry
\* no "status", which .get("status", "UNKNOWN") replaces
GetQualityGateStatus ==
    /\ pc = "gate"
    /\ calls' = Append(calls, Call(GateEp, FetchPr))
    /\ \/ /\ \E status \in {None} \cup {Some(g) : g \in GateStatuses} :
               qg_status' = IF IsNone(status) THEN "UNKNOWN" ELSE Val(status)
          /\ UNCHANGED failed
       \/ /\ qg_status' = "UNKNOWN"
          /\ failed' = failed \cup {"gate"}
    /\ pc' = "file_coverage"
    /\ UNCHANGED <<exit_code, missing, ref, edition, pr_number, changed_lines,
                   issues, hotspots, metrics, is_pr_mode, file_coverage,
                   comment>>

\* get_file_coverage 159-164: keep the components whose path is changed
RECURSIVE ComponentsInto(_, _, _)
ComponentsInto(components, changed_files, fc) ==
    IF components = <<>> THEN [dict |-> fc, raised |-> FALSE]
    ELSE LET comp == Head(components)
         IN IF comp.path \in changed_files
            THEN IF IsNone(comp.value) THEN [dict |-> fc, raised |-> TRUE]
                 ELSE ComponentsInto(Tail(components), changed_files,
                                     Put(fc, comp.path, Val(comp.value)))
            ELSE ComponentsInto(Tail(components), changed_files, fc)

\* main 352-354, get_file_coverage 140-168
GetFileCoverage ==
    /\ pc = "file_coverage"
    /\ calls' = Append(calls, Call(TreeEp, FetchPr))
    /\ \/ \E components \in ComponentLists :
            LET r == ComponentsInto(components, DOMAIN changed_lines, EmptyDict)
            IN /\ file_coverage' = r.dict
               /\ failed' = IF r.raised THEN failed \cup {"file_coverage_read"}
                            ELSE failed
       \/ /\ file_coverage' = EmptyDict
          /\ failed' = failed \cup {"file_coverage"}
    /\ pc' = "format"
    /\ UNCHANGED <<exit_code, missing, ref, edition, pr_number, changed_lines,
                   issues, hotspots, metrics, qg_status, is_pr_mode, comment>>

\* main 356
FormatCommentStep ==
    /\ pc = "format"
    /\ comment' = Some(FormatComment(issues, hotspots, changed_lines, metrics,
                                     file_coverage, qg_status, pr_number,
                                     is_pr_mode))
    /\ pc' = "post"
    /\ UNCHANGED <<exit_code, missing, ref, edition, pr_number, changed_lines,
                   issues, hotspots, metrics, qg_status, is_pr_mode,
                   file_coverage, calls, failed>>

\* main 358-366: the comment is never empty, so it is always posted; main
\* then returns (status 0), or the failed post is caught and exits 1
PostComment ==
    /\ pc = "post"
    /\ calls' = Append(calls, Call(PostEp, pr_number))
    /\ \/ /\ pc' = "done"
          /\ exit_code' = Some(0)
          /\ UNCHANGED failed
       \/ /\ failed' = failed \cup {"post"}
          /\ Exit(1)
    /\ UNCHANGED <<missing, ref, edition, pr_number, changed_lines, issues,
                   hotspots, metrics, qg_status, is_pr_mode, file_coverage,
                   comment>>

(***************************************************************************)
(* Specification of a run                                                  *)
(***************************************************************************)
Init ==
    /\ pc = "start"
    /\ exit_code = None
    /\ \/ missing = "none" /\ ref \in Refs
       \/ missing \in RequiredOptions /\ ref = PullRef
    /\ edition \in Editions
    /\ pr_number = None
    /\ changed_lines = EmptyDict
    /\ issues = <<>>
    /\ hotspots = <<>>
    /\ metrics = EmptyDict
    /\ qg_status = "UNKNOWN"
    /\ is_pr_mode = FALSE
    /\ file_coverage = EmptyDict
    /\ comment = None
    /\ calls = <<>>
    /\ failed = {}

Next ==
    \/ ReadConfig
    \/ GetPrDiff
    \/ RunSonarScanner
    \/ FetchIssuesPrMode
    \/ FetchIssuesFallback
    \/ FetchIssuesGlobal
    \/ GetSonarHotspots
    \/ GetCoverageMetrics
    \/ GetQualityGateStatus
    \/ GetFileCoverage
    \/ FormatCommentStep
    \/ PostComment

Spec == Init /\ [][Next]_vars

(***************************************************************************)
(* Specification of format_comment as a function of its arguments          *)
(***************************************************************************)
FindingPairs ==
    {p \in SeqsUpTo(Findings, MaxFindings) \X SeqsUpTo(Findings, MaxFindings) :
        Len(p[1]) + Len(p[2]) <= MaxFindings}

InitFormat ==
    /\ pc = "format"
    /\ exit_code = None
    /\ missing = "none"
    /\ ref = PullRef
    /\ edition = "community"
    /\ pr_number \in {None, Some(7)}
    /\ changed_lines \in ChangeSets
    /\ \E p \in FindingPairs : issues = p[1] /\ hotspots = p[2]
    /\ metrics = EmptyDict
    /\ qg_status = "OK"
    /\ is_pr_mode \in BOOLEAN
    /\ file_coverage = EmptyDict
    /\ comment = None
    /\ calls = <<>>
    /\ failed = {}

SpecFormat == InitFormat /\ [][FormatCommentStep]_vars

(***************************************************************************)
(* Vocabulary of the properties. The expected path of a component and the  *)
(* expected scope of a finding are written out here, independently of the  *)
(* operators that model format_comment.                                    *)
(***************************************************************************)
Built == comment # None
Report == Val(comment)

\* the path a component identifier names
ExpectedPath(component) ==
    CASE component = <<"p", ":", "a">> -> PathA
      [] component = <<"a">> -> PathA
      [] component = <<"b">> -> PathB

FileChanged(f) == ExpectedPath(f.component) \in DOMAIN changed_lines

\* in scope as section 3 of the specification defines it
InScope(f) ==
    /\ FileChanged(f)
    /\ \/ f.line = None
       \/ \E l \in f.line : l \in changed_lines[ExpectedPath(f.component)]

\* what a report shows of a finding: its file and its own line
Shown(f) ==
    [file |-> ExpectedPath(f.component),
     line |-> IF f.line = None THEN [na |-> TRUE, n |-> 0]
              ELSE [na |-> FALSE, n |-> Val(f.line)]]

ShownOf(findings) == [i \in 1..Len(findings) |-> Shown(findings[i])]
ShownIn(entries) ==
    [i \in 1..Len(entries) |-> [file |-> entries[i].file, line |-> entries[i].line]]

Entries == Report.relevant_issues \o Report.relevant_hotspots
Range(q) == {q[i] : i \in 1..Len(q)}
CallsTo(eps) == SelectSeq(calls, LAMBDA c : c.ep \in eps)
SecondaryEps == {HotspotsEp, MeasuresEp, GateEp, TreeEp}
Finished == pc \in {"done", "exit"}
ExitedNonZero == pc = "exit" /\ exit_code # None /\ Val(exit_code) # 0

(***************************************************************************)
(* C1: in ManualFiltered mode (is_pr_mode false) format_comment reports an *)
(* issue iff its file path is a key of the change set and the issue has no *)
(* line or its line is one of the file's added lines: the reported issues  *)
(* are exactly the in-scope issues, in order.                              *)
(***************************************************************************)
C1_ManualIssueScope ==
    (Built /\ ~is_pr_mode) =>
        ShownIn(Report.relevant_issues) = ShownOf(SelectSeq(issues, InScope))

\* two issues of one changed file, one on an added line and one beside it:
\* exactly the first is reported
C1_Witness ==
    /\ Built /\ ~is_pr_mode
    /\ Len(issues) = 2
    /\ issues[1].component = issues[2].component
    /\ FileChanged(issues[1])
    /\ InScope(issues[1]) /\ ~InScope(issues[2])
    /\ issues[1].line # None /\ issues[2].line # None
    /\ Len(Report.relevant_issues) = 1

(***************************************************************************)
(* C2: in ManualFiltered mode a hotspot is reported iff its file path is a *)
(* key of the change set, whatever its line, and a reported hotspot shows  *)
(* its own line number.                                                    *)
(***************************************************************************)
C2_ManualHotspotScope ==
    (Built /\ ~is_pr_mode) =>
        ShownIn(Report.relevant_hotspots) = ShownOf(SelectSeq(hotspots, FileChanged))

\* two hotspots of one changed file, one on an added line and one outside
\* the added lines: both are reported
C2_Witness ==
    /\ Built /\ ~is_pr_mode
    /\ Len(hotspots) = 2
    /\ hotspots[1].component = hotspots[2].component
    /\ InScope(hotspots[1]) /\ hotspots[1].line # None
    /\ FileChanged(hotspots[2]) /\ ~InScope(hotspots[2])
    /\ Len(Report.relevant_hotspots) = 2

(***************************************************************************)
(* C3: in ServerFiltered mode (is_pr_mode true) the filter is the identity:*)
(* every issue and every hotspot is reported, in the order received, for   *)
(* every change set, the empty one included.                               *)
(***************************************************************************)
C3_ServerFilterIdentity ==
    (Built /\ is_pr_mode) =>
        /\ ShownIn(Report.relevant_issues) = ShownOf(issues)
        /\ ShownIn(Report.relevant_hotspots) = ShownOf(hotspots)

\* an empty change set, and an issue and a hotspot both reported
C3_Witness ==
    /\ Built /\ is_pr_mode
    /\ changed_lines = EmptyDict
    /\ issues # <<>> /\ hotspots # <<>>
    /\ Len(Report.relevant_issues) = Len(issues)
    /\ Len(Report.relevant_hotspots) = Len(hotspots)

(***************************************************************************)
(* C4, as claimed: in every run and in either mode the report holds no     *)
(* finding whose file is absent from the change set.                       *)
(***************************************************************************)
C4_NoFindingOutsideChangeSet ==
    Built => \A e \in Range(Entries) : e.file \in DOMAIN changed_lines

(***************************************************************************)
(* C4, amended: in a run that settled on ManualFiltered mode the report    *)
(* holds no finding whose file is absent from the change set.              *)
(***************************************************************************)
C4_ManualNoFindingOutsideChangeSet ==
    (Built /\ ~is_pr_mode) =>
        \A e \in Range(Entries) : e.file \in DOMAIN changed_lines

\* a run in manual mode that fetched an issue and a hotspot of files outside
\* the change set and built a report
C4_Witness ==
    /\ Built /\ ~is_pr_mode /\ pc = "done"
    /\ \E i \in 1..Len(issues) : ~FileChanged(issues[i])
    /\ \E i \in 1..Len(hotspots) : ~FileChanged(hotspots[i])

(***************************************************************************)
(* C5: when the PR-mode issue fetch fails the run falls back exactly once: *)
(* one further issue fetch, without the change reference, settles the run  *)
(* on ManualFiltered and the report holds manually filtered issues; no run *)
(* searches issues more than twice or repeats the PR-mode fetch; a failed  *)
(* fallback fetch ends the run fatally, with no report and no other call.  *)
(***************************************************************************)
IssueCalls == CallsTo({IssuesEp})

C5_FallbackOnce ==
    /\ Len(IssueCalls) <= 2
    /\ Cardinality({i \in 1..Len(IssueCalls) : IssueCalls[i].pullRequest # None}) <= 1
    /\ "issues_pr" \in failed =>
          /\ IssueCalls[1].pullRequest # None
          /\ pc = "issues_fallback" => Len(IssueCalls) = 1
          /\ pc # "issues_fallback" =>
                /\ Len(IssueCalls) = 2
                /\ IssueCalls[2].pullRequest = None
                /\ ~is_pr_mode
          /\ Built =>
                ShownIn(Report.relevant_issues) = ShownOf(SelectSeq(issues, InScope))
    /\ Len(IssueCalls) = 2 => "issues_pr" \in failed
    /\ "issues_fallback" \in failed =>
          /\ ExitedNonZero
          /\ ~Built
          /\ calls[Len(calls)].ep = IssuesEp

\* a run whose PR-mode fetch failed, that fell back, dropped a fetched issue
\* by the manual filter and posted its report
C5_Witness ==
    /\ "issues_pr" \in failed
    /\ pc = "done"
    /\ Len(IssueCalls) = 2
    /\ issues # <<>>
    /\ Report.relevant_issues = <<>>

(***************************************************************************)
(* C6: the mode is settled by the issue fetch and never re-decided: the    *)
(* hotspot, coverage, quality-gate and per-file-coverage fetches carry the *)
(* change reference iff the settled mode is ServerFiltered, the filter and *)
(* the links of format_comment use the same mode, and after a fallback no  *)
(* later fetch carries the change reference and no finding is included     *)
(* unconditionally.                                                        *)
(***************************************************************************)
SecondaryCalls == CallsTo(SecondaryEps)

C6_ModeSettledOnce ==
    /\ \A c \in Range(SecondaryCalls) : (c.pullRequest # None) <=> is_pr_mode
    /\ is_pr_mode <=>
          /\ IssueCalls # <<>>
          /\ IssueCalls[Len(IssueCalls)].pullRequest # None
          /\ "issues_pr" \notin failed
    /\ Built =>
          /\ (Report.analysis_link # None) <=> is_pr_mode
          /\ \A e \in Range(Entries) : (e.link.pullRequest # None) <=> is_pr_mode
          /\ ShownIn(Report.relevant_issues) =
                ShownOf(IF is_pr_mode THEN issues ELSE SelectSeq(issues, InScope))
          /\ ShownIn(Report.relevant_hotspots) =
                ShownOf(IF is_pr_mode THEN hotspots
                        ELSE SelectSeq(hotspots, FileChanged))
    /\ "issues_pr" \in failed =>
          /\ \A c \in Range(SecondaryCalls) : c.pullRequest = None
          /\ Built => \A e \in Range(Entries) : e.file \in DOMAIN changed_lines

\* a finished run that fell back and then made its four later fetches
C6_Witness ==
    /\ "issues_pr" \in failed
    /\ pc = "done"
    /\ Len(SecondaryCalls) = 4
    /\ Entries # <<>>

(***************************************************************************)
(* C7: a failed secondary fetch (hotspots, coverage metrics, per-file      *)
(* coverage, quality gate), in any combination, is not fatal: it leaves an *)
(* empty list, an empty mapping or the status "UNKNOWN", the remaining     *)
(* fetches are still made, and a run whose diff, scanner and issue fetch   *)
(* succeeded builds its report and posts it.                               *)
(***************************************************************************)
FatalCauses == {"diff", "scanner", "issues_fallback", "issues_global", "post"}

C7_SecondaryFailuresNotFatal ==
    /\ "hotspots" \in failed => hotspots = <<>>
    /\ "metrics" \in failed => metrics = EmptyDict
    /\ "gate" \in failed => qg_status = "UNKNOWN"
    /\ "file_coverage" \in failed => file_coverage = EmptyDict
    /\ (pc = "exit" /\ calls # <<>>) => failed \cap FatalCauses # {}
    /\ pc = "metrics" => Len(SecondaryCalls) = 1
    /\ pc = "gate" => Len(SecondaryCalls) = 2
    /\ pc = "file_coverage" => Len(SecondaryCalls) = 3
    /\ pc \in {"format", "post", "done"} => Len(SecondaryCalls) = 4
    /\ pc \in {"post", "done"} => Built
    /\ (Finished /\ calls # <<>> /\ failed \cap (FatalCauses \ {"post"}) = {}) =>
          /\ [i \in 1..4 |-> SecondaryCalls[i].ep] =
                <<HotspotsEp, MeasuresEp, GateEp, TreeEp>>
          /\ Built
          /\ calls[Len(calls)].ep = PostEp
          /\ pc = "done" \/ "post" \in failed

\* a run in which all four secondary fetches failed and the report was posted
C7_Witness ==
    /\ {"hotspots", "metrics", "gate", "file_coverage"} \subseteq failed
    /\ pc = "done"
    /\ exit_code = Some(0)
    /\ Built
    /\ Report.health_icon.text = "Unknown"

(***************************************************************************)
(* C8, as claimed: when a required option is missing the run makes no      *)
(* network call: no diff fetch, no analysis-server request, no post.       *)
(***************************************************************************)
ConfigIncomplete == missing \in RequiredOptions \/ ref = <<"">>

C8_NoNetworkCallWithoutConfig ==
    ConfigIncomplete => CallsTo({DiffEp, PostEp} \cup SonarEps) = <<>>

(***************************************************************************)
(* C9, as claimed: the gate label is a fixed function of the status: "OK"  *)
(* Passed, "ERROR" Failed, "WARN" Warning, "UNKNOWN" (and a failed gate    *)
(* fetch) Unknown, and any other string verbatim with the Unknown icon.    *)
(***************************************************************************)
ExpectedLabel(status) ==
    CASE status = "OK" -> [icon |-> "check", text |-> "Passed"]
      [] status = "ERROR" -> [icon |-> "cross", text |-> "Failed"]
      [] status = "WARN" -> [icon |-> "warning", text |-> "Warning"]
      [] status = "UNKNOWN" -> [icon |-> "question", text |-> "Unknown"]
      [] OTHER -> [icon |-> "question", text |-> status]

C9_GateLabel ==
    /\ "gate" \in failed => qg_status = "UNKNOWN"
    /\ Built => Report.health_icon = ExpectedLabel(qg_status)

(***************************************************************************)
(* C10: a failed diff fetch or parse, or a non-zero exit of the scanner,   *)
(* ends the run with a non-zero exit code before any report is built: no   *)
(* analysis-server fetch follows, format_comment is not called, nothing is *)
(* posted; the steps of a run occur in the order diff fetch, scanner,      *)
(* analysis-server fetches, filter and render, post.                       *)
(***************************************************************************)
Stage(ep) ==
    CASE ep = DiffEp -> 1
      [] ep = ScannerEp -> 2
      [] ep \in SonarEps -> 3
      [] ep = PostEp -> 5

C10_FatalBeforeReport ==
    /\ "diff" \in failed =>
          /\ ExitedNonZero /\ ~Built
          /\ [i \in 1..Len(calls) |-> calls[i].ep] = <<DiffEp>>
    /\ "scanner" \in failed =>
          /\ ExitedNonZero /\ ~Built
          /\ [i \in 1..Len(calls) |-> calls[i].ep] = <<DiffEp, ScannerEp>>
    /\ \A i, j \in 1..Len(calls) : i < j => Stage(calls[i].ep) <= Stage(calls[j].ep)
    /\ Len(CallsTo({DiffEp})) <= 1 /\ Len(CallsTo({ScannerEp})) <= 1
    /\ Len(CallsTo({PostEp})) <= 1
    /\ CallsTo(SonarEps) # <<>> => Len(CallsTo({DiffEp, ScannerEp})) = 2
    /\ Built => Len(SecondaryCalls) = 4
    /\ CallsTo({PostEp}) # <<>> => Built
    /\ (Built /\ CallsTo({PostEp}) = <<>>) => pc = "post"

\* the scanner was killed by a signal: the run exits with status 247 after
\* the diff fetch and the scanner, with no report
C10_Witness ==
    /\ "scanner" \in failed
    /\ pc = "exit"
    /\ exit_code = Some(247)
    /\ Len(calls) = 2

====
